---- MODULE Spec2Model ----
(***************************************************************************)
(* Model of custom_C.c, the template dynamics plugin of the planar XY      *)
(* example: five entry points that fill an output buffer from the joint    *)
(* vectors, and the empty mexFunction.                                     *)
(*                                                                         *)
(* Memory is a set of named double buffers owned by the host.  A call is   *)
(* a record of the five pointer arguments (buffer names) and a program     *)
(* counter; one step executes one C assignment statement.  Two host        *)
(* threads may be inside the library at once.  Two overlapping calls of    *)
(* which one writes a cell the other accesses are a data race: from then   *)
(* on the stores of both are nondeterministic.                             *)
(*                                                                         *)
(* Values are integers (exactly representable doubles).                    *)
(***************************************************************************)
EXTENDS Integers, FiniteSets, Sequences, TLC

\* ------------------------------------------------------------------ bounds
BufLen == 4          \* cells per buffer (the code needs at least 3)
MaxVal == 1          \* input cells of SpecFn range over -1..MaxVal
MaxCalls == 2        \* entry-point invocations the host makes in Spec
MaxArgs == 1         \* length of the plhs/prhs arrays handed to mexFunction

Idx == 0 .. (BufLen - 1)
Vals == (0 - 1) .. MaxVal
Threads == {1, 2}

\* --------------------------------------------------------------- buffers
InBufs == {"q", "q_dot", "q_ddot", "W_e"}
OutBufs == {"l", "M", "C", "G", "L"}
Bufs == InBufs \cup OutBufs

Funcs == {"customCableLengths", "customM", "customC", "customG", "customL"}

VARIABLES mem, call, ncalls, nmex, plhs, prhs
vars == <<mem, call, ncalls, nmex, plhs, prhs>>

\* ------------------------------------------------- the five entry points
\* Each operator gives the memory after statement k of the function body,
\* the arguments being buffer names (pointers).

\* Variant: the length is taken from the position instead of the velocity.
customCableLengths_fromq(m, k, l, q, q_dot, q_ddot, W_e) ==
    [m EXCEPT ![l][0] = m[q][0]]

customCableLengths(m, k, l, q, q_dot, q_ddot, W_e) ==
    [m EXCEPT ![l][0] = m[q_dot][0]]

\* Variant: the second entry copies q[0].
customM_index(m, k, M, q, q_dot, q_ddot, W_e) ==
    CASE k = 0 -> [m EXCEPT ![M][0] = m[q][0]]
      [] k = 1 -> [m EXCEPT ![M][1] = m[q][0]]
      [] k = 2 -> [m EXCEPT ![M][2] = m[q][2]]

\* Variant: the last store goes one entry too far.
customM_overrun(m, k, M, q, q_dot, q_ddot, W_e) ==
    CASE k = 0 -> [m EXCEPT ![M][0] = m[q][0]]
      [] k = 1 -> [m EXCEPT ![M][1] = m[q][1]]
      [] k = 2 -> [m EXCEPT ![M][3] = m[q][2]]

\* Variant: the positions are taken from the host's buffer C, not from the
\* argument q.
customM_global(m, k, M, q, q_dot, q_ddot, W_e) ==
    CASE k = 0 -> [m EXCEPT ![M][0] = m["C"][0]]
      [] k = 1 -> [m EXCEPT ![M][1] = m["C"][1]]
      [] k = 2 -> [m EXCEPT ![M][2] = m["C"][2]]

customM(m, k, M, q, q_dot, q_ddot, W_e) ==
    CASE k = 0 -> [m EXCEPT ![M][0] = m[q][0]]
      [] k = 1 -> [m EXCEPT ![M][1] = m[q][1]]
      [] k = 2 -> [m EXCEPT ![M][2] = m[q][2]]

\* Variant: the velocity is subtracted.
customC_minus(m, k, C, q, q_dot, q_ddot, W_e) ==
    CASE k = 0 -> [m EXCEPT ![C][0] = m[q][0] * 2 - m[q_dot][0]]
      [] k = 1 -> [m EXCEPT ![C][1] = m[q][1] * 2 - m[q_dot][1]]
      [] k = 2 -> [m EXCEPT ![C][2] = m[q][2] * 2 - m[q_dot][2]]

\* Variant: the last entry adds the acceleration instead of the velocity.
customC_qddot(m, k, C, q, q_dot, q_ddot, W_e) ==
    CASE k = 0 -> [m EXCEPT ![C][0] = m[q][0] * 2 + m[q_dot][0]]
      [] k = 1 -> [m EXCEPT ![C][1] = m[q][1] * 2 + m[q_dot][1]]
      [] k = 2 -> [m EXCEPT ![C][2] = m[q][2] * 2 + m[q_ddot][2]]

customC(m, k, C, q, q_dot, q_ddot, W_e) ==
    CASE k = 0 -> [m EXCEPT ![C][0] = m[q][0] * 2 + m[q_dot][0]]
      [] k = 1 -> [m EXCEPT ![C][1] = m[q][1] * 2 + m[q_dot][1]]
      [] k = 2 -> [m EXCEPT ![C][2] = m[q][2] * 2 + m[q_dot][2]]

\* Variant: each entry is built up in the output cell: first 3*q[k] is
\* stored, then the velocity is subtracted from the stored value.
customG_accumulate(m, k, G, q, q_dot, q_ddot, W_e) ==
    LET m1 == [m EXCEPT ![G][k] = m[q][k] * 3]
    IN  [m1 EXCEPT ![G][k] = m1[G][k] - m1[q_dot][k]]

\* Variant: the factor of the first entry is 2.
customG_factor(m, k, G, q, q_dot, q_ddot, W_e) ==
    CASE k = 0 -> [m EXCEPT ![G][0] = m[q][0] * 2 - m[q_dot][0]]
      [] k = 1 -> [m EXCEPT ![G][1] = m[q][1] * 3 - m[q_dot][1]]
      [] k = 2 -> [m EXCEPT ![G][2] = m[q][2] * 3 - m[q_dot][2]]

customG(m, k, G, q, q_dot, q_ddot, W_e) ==
    CASE k = 0 -> [m EXCEPT ![G][0] = m[q][0] * 3 - m[q_dot][0]]
      [] k = 1 -> [m EXCEPT ![G][1] = m[q][1] * 3 - m[q_dot][1]]
      [] k = 2 -> [m EXCEPT ![G][2] = m[q][2] * 3 - m[q_dot][2]]

\* Variant: the last entry is a sum.
customL_sum(m, k, L, q, q_dot, q_ddot, W_e) ==
    CASE k = 0 -> [m EXCEPT ![L][0] = m[q][0] * m[q_dot][0]]
      [] k = 1 -> [m EXCEPT ![L][1] = m[q][1] * m[q_dot][1]]
      [] k = 2 -> [m EXCEPT ![L][2] = m[q][2] + m[q_dot][2]]

customL(m, k, L, q, q_dot, q_ddot, W_e) ==
    CASE k = 0 -> [m EXCEPT ![L][0] = m[q][0] * m[q_dot][0]]
      [] k = 1 -> [m EXCEPT ![L][1] = m[q][1] * m[q_dot][1]]
      [] k = 2 -> [m EXCEPT ![L][2] = m[q][2] * m[q_dot][2]]

\* Number of assignment statements in the body of fn.
NStmts(fn) == IF fn = "customCableLengths" THEN 1 ELSE 3

\* Memory after statement k of the call c (a record of fn and arguments).
ExecStmt(m, k, c) ==
    CASE c.fn = "customCableLengths" ->
            customCableLengths(m, k, c.out, c.q, c.q_dot, c.q_ddot, c.W_e)
      [] c.fn = "customM" -> customM(m, k, c.out, c.q, c.q_dot, c.q_ddot, c.W_e)
      [] c.fn = "customC" -> customC(m, k, c.out, c.q, c.q_dot, c.q_ddot, c.W_e)
      [] c.fn = "customG" -> customG(m, k, c.out, c.q, c.q_dot, c.q_ddot, c.W_e)
      [] c.fn = "customL" -> customL(m, k, c.out, c.q, c.q_dot, c.q_ddot, c.W_e)

\* Cells <<buffer, index>> that statement k of the call c loads.
StmtReads(k, c) ==
    CASE c.fn = "customCableLengths" -> {<<c.q_dot, 0>>}
      [] c.fn = "customM" -> {<<c.q, k>>}
      [] OTHER -> {<<c.q, k>>, <<c.q_dot, k>>}

\* The cell that statement k of the call c stores to.
StmtWrites(k, c) == {<<c.out, k>>}

CallReads(c) == UNION {StmtReads(k, c) : k \in 0 .. (NStmts(c.fn) - 1)}
CallWrites(c) == UNION {StmtWrites(k, c) : k \in 0 .. (NStmts(c.fn) - 1)}

\* The whole body of the call c run on memory m from statement k on, with
\* nothing else running.
RECURSIVE RunFrom(_, _, _)
RunFrom(m, k, c) ==
    IF k >= NStmts(c.fn) THEN m ELSE RunFrom(ExecStmt(m, k, c), k + 1, c)

RunAlone(m, c) == RunFrom(m, 0, c)

\* Two calls conflict when one stores to a cell the other loads or stores.
Conflict(c, d) ==
    \/ CallWrites(c) \cap (CallReads(d) \cup CallWrites(d)) # {}
    \/ CallWrites(d) \cap CallReads(c) # {}

\* ------------------------------------------------------------ the host
\* The buffer the host normally passes as output of fn, and a second one
\* it may pass instead.
Own(fn) ==
    CASE fn = "customCableLengths" -> "l"
      [] fn = "customM" -> "M"
      [] fn = "customC" -> "C"
      [] fn = "customG" -> "G"
      [] fn = "customL" -> "L"

Alt(fn) ==
    CASE fn = "customCableLengths" -> "M"
      [] fn = "customM" -> "C"
      [] fn = "customC" -> "G"
      [] fn = "customG" -> "L"
      [] fn = "customL" -> "l"

\* The input pointers <<q, q_dot, q_ddot, W_e>> the host passes.
ArgChoices ==
    { <<"q", "q_dot", "q_ddot", "W_e">>,
      <<"q", "q_dot", "W_e", "q_ddot">>,
      <<"q", "q_ddot", "q_dot", "W_e">>,
      <<"W_e", "q_dot", "q_ddot", "q">> }

\* The input pointers the host of Spec passes along with output o: the
\* joint vectors in the usual order with the usual output; with the other
\* output, either q_ddot and W_e exchanged, or another vector in the place
\* of the one argument among q and q_dot that fn ignores (of q_dot, when
\* fn ignores neither).
HostArgs(fn, o) ==
    IF o = Own(fn) THEN { <<"q", "q_dot", "q_ddot", "W_e">> }
    ELSE { <<"q", "q_dot", "W_e", "q_ddot">>,
           IF fn = "customCableLengths"
           THEN <<"W_e", "q_dot", "q_ddot", "q">>
           ELSE <<"q", "q_ddot", "q_dot", "W_e">> }

IdleCall ==
    [fn |-> "none", out |-> "none", q |-> "none", q_dot |-> "none",
     q_ddot |-> "none", W_e |-> "none", pc |-> 0, st |-> "idle",
     raced |-> FALSE, pre |-> <<>>, acc |-> {}]

\* The record of a call entered with memory m: its arguments, its position,
\* and the content of the buffers it was handed as they are on entry.
NewCall(f, o, a, m) ==
    [fn |-> f, out |-> o, q |-> a[1], q_dot |-> a[2], q_ddot |-> a[3],
     W_e |-> a[4], pc |-> 0, st |-> "run", raced |-> FALSE,
     pre |-> [b \in {o, a[1], a[2], a[3], a[4]} |-> m[b]],
     acc |-> {}]

Running(t) == call[t].st = "run"
Done(t) == Running(t) /\ call[t].pc = NStmts(call[t].fn)

\* Initial content of the cells the host has not filled with a joint value.
Filler(b, i) ==
    CASE b = "q" -> 10 + i
      [] b = "q_dot" -> 20 + i
      [] b = "q_ddot" -> 30 + i
      [] b = "W_e" -> 40 + i
      [] b = "l" -> 50 + i
      [] b = "M" -> 60 + i
      [] b = "C" -> 70 + i
      [] b = "G" -> 80 + i
      [] b = "L" -> 90 + i

\* What a racing store may leave in a cell besides the computed value.
Garbage == {0 - 1}

InitMem(qv, qdv) ==
    [b \in Bufs |-> [i \in Idx |->
        IF i <= 2 /\ b = "q" THEN qv[i]
        ELSE IF i <= 2 /\ b = "q_dot" THEN qdv[i]
        ELSE Filler(b, i)]]

InitRest ==
    /\ call = [t \in Threads |-> IdleCall]
    /\ ncalls = 0
    /\ nmex = 0
    /\ plhs = [i \in 1 .. MaxArgs |-> "NULL"]
    /\ prhs = [i \in 1 .. MaxArgs |-> "mxArray"]

\* The joint vectors of the spec's example: q = [1,2,3], q_dot = [4,5,6].
Init ==
    /\ mem = InitMem([i \in 0 .. 2 |-> 1 + i], [i \in 0 .. 2 |-> 4 + i])
    /\ InitRest

\* The host enters fn on thread t with output o and inputs a.
Call(t, f, o, a) ==
    /\ call[t].st = "idle"
    /\ LET c == NewCall(f, o, a, mem)
           hit == {u \in Threads \ {t} : Running(u) /\ Conflict(c, call[u])}
       IN  call' = [u \in Threads |->
                      IF u = t THEN [c EXCEPT !.raced = (hit # {})]
                      ELSE IF u \in hit THEN [call[u] EXCEPT !.raced = TRUE]
                      ELSE call[u]]
    /\ ncalls' = ncalls + 1
    /\ UNCHANGED <<mem, nmex, plhs, prhs>>

\* Thread t executes the next assignment of its call.
Step(t) ==
    /\ Running(t)
    /\ call[t].pc < NStmts(call[t].fn)
    /\ LET c == call[t]
           k == c.pc
           w == CHOOSE x \in StmtWrites(k, c) : TRUE
       IN  /\ \/ mem' = ExecStmt(mem, k, c)
              \/ /\ c.raced
                 /\ \E v \in Garbage : mem' = [mem EXCEPT ![w[1]][w[2]] = v]
           /\ call' = [call EXCEPT ![t].pc = k + 1,
                          ![t].acc = @ \cup StmtReads(k, c) \cup StmtWrites(k, c)]
    /\ UNCHANGED <<ncalls, nmex, plhs, prhs>>

\* The call of thread t returns to the host.
Return(t) ==
    /\ Done(t)
    /\ call' = [call EXCEPT ![t] = IdleCall]
    /\ UNCHANGED <<mem, ncalls, nmex, plhs, prhs>>

\* Variant: the gateway creates its first output.
mexFunction_output(nlhs, nrhs) ==
    /\ nmex' = nmex + 1
    /\ plhs' = IF nlhs >= 1 THEN [plhs EXCEPT ![1] = "mxArray"] ELSE plhs
    /\ UNCHANGED <<mem, call, ncalls, prhs>>

\* The host calls the MEX gateway; its body is empty.
mexFunction(nlhs, nrhs) ==
    /\ nmex' = nmex + 1
    /\ UNCHANGED <<mem, call, ncalls, plhs, prhs>>

\* The host makes its calls on thread 1, and on thread 2 while thread 1 is
\* inside the library.
HostCall ==
    /\ ncalls + nmex < MaxCalls
    /\ \E t \in {u \in Threads : u = 1 \/ call[1].st # "idle"}, f \in Funcs :
          \E o \in {Own(f), Alt(f)} : \E a \in HostArgs(f, o) : Call(t, f, o, a)

HostMex ==
    /\ ncalls + nmex < MaxCalls
    /\ \E nlhs \in 0 .. MaxArgs, nrhs \in 0 .. MaxArgs : mexFunction(nlhs, nrhs)

Next ==
    \/ HostCall
    \/ \E t \in Threads : Step(t)
    \/ \E t \in Threads : Return(t)
    \/ HostMex

Spec == Init /\ [][Next]_vars

\* ---------------------------------------- one call on arbitrary inputs
\* Every pair of joint vectors over Vals, and the pair of the spec's example.
InitFn ==
    /\ \/ \E qv \in [0 .. 2 -> Vals], qdv \in [0 .. 2 -> Vals] :
             mem = InitMem(qv, qdv)
       \/ mem = InitMem([i \in 0 .. 2 |-> 1 + i], [i \in 0 .. 2 |-> 4 + i])
    /\ InitRest

\* A single call, the output buffer being the usual one or one of the
\* buffers passed as q and q_dot.
FnCall ==
    /\ ncalls = 0
    /\ nmex = 0
    /\ \E f \in Funcs, a \in ArgChoices :
          \E o \in {Own(f), a[1], a[2]} : Call(1, f, o, a)

NextFn ==
    \/ FnCall
    \/ Step(1)
    \/ Return(1)

SpecFn == InitFn /\ [][NextFn]_vars

\* ------------------------------------------------------------ properties
\* A finished call of thread t, as the claims speak of it: the body has run
\* to its end, and no overlapping call raced with it.
Finished(t, f) == Done(t) /\ call[t].fn = f /\ ~call[t].raced

\* The output pointer differs from every input pointer.
Distinct(c) == c.out \notin {c.q, c.q_dot, c.q_ddot, c.W_e}

\* The values q[i] and q_dot[i] of the call c on entry.
PreQ(c, i) == c.pre[c.q][i]
PreQdot(c, i) == c.pre[c.q_dot][i]

\* The joint vectors on entry of c are those of the spec's example.
Example(c) ==
    /\ c.q = "q" /\ c.q_dot = "q_dot"
    /\ \A i \in 0 .. 2 : PreQ(c, i) = 1 + i /\ PreQdot(c, i) = 4 + i

\* C1: after customC with an output distinct from the inputs,
\* C[i] = 2*q[i] + q_dot[i] for i in 0..2.
C1_customC ==
    \A t \in Threads :
        Finished(t, "customC") /\ Distinct(call[t]) =>
            \A i \in 0 .. 2 :
                mem[call[t].out][i] = 2 * PreQ(call[t], i) + PreQdot(call[t], i)

\* q = [1,2,3], q_dot = [4,5,6] has given C = [6,9,12].
C1_witness ==
    /\ Finished(1, "customC") /\ call[1].out = "C" /\ Example(call[1])
    /\ mem["C"][0] = 6 /\ mem["C"][1] = 9 /\ mem["C"][2] = 12

\* C2: after customG with an output distinct from the inputs,
\* G[i] = 3*q[i] - q_dot[i] for i in 0..2.
C2_customG ==
    \A t \in Threads :
        Finished(t, "customG") /\ Distinct(call[t]) =>
            \A i \in 0 .. 2 :
                mem[call[t].out][i] = 3 * PreQ(call[t], i) - PreQdot(call[t], i)

\* q = [1,2,3], q_dot = [4,5,6] has given G = [-1,1,3].
C2_witness ==
    /\ Finished(1, "customG") /\ call[1].out = "G" /\ Example(call[1])
    /\ mem["G"][0] = 0 - 1 /\ mem["G"][1] = 1 /\ mem["G"][2] = 3

\* C3: after customL with an output distinct from the inputs,
\* L[i] = q[i] * q_dot[i] for i in 0..2.
C3_customL ==
    \A t \in Threads :
        Finished(t, "customL") /\ Distinct(call[t]) =>
            \A i \in 0 .. 2 :
                mem[call[t].out][i] = PreQ(call[t], i) * PreQdot(call[t], i)

\* q = [1,2,3], q_dot = [4,5,6] has given L = [4,10,18].
C3_witness ==
    /\ Finished(1, "customL") /\ call[1].out = "L" /\ Example(call[1])
    /\ mem["L"][0] = 4 /\ mem["L"][1] = 10 /\ mem["L"][2] = 18

\* C4: after customM with an output distinct from the inputs,
\* M[i] = q[i] for i in 0..2, whatever q_dot is.
C4_customM ==
    \A t \in Threads :
        Finished(t, "customM") /\ Distinct(call[t]) =>
            \A i \in 0 .. 2 : mem[call[t].out][i] = PreQ(call[t], i)

\* q = [1,2,3] has given M = [1,2,3].
C4_witness ==
    /\ Finished(1, "customM") /\ call[1].out = "M" /\ Example(call[1])
    /\ mem["M"][0] = 1 /\ mem["M"][1] = 2 /\ mem["M"][2] = 3

\* C5: after customCableLengths, l[0] is the q_dot[0] of entry and every
\* l[j] with j >= 1 holds the value it had on entry.
C5_customCableLengths ==
    \A t \in Threads :
        Finished(t, "customCableLengths") =>
            /\ mem[call[t].out][0] = PreQdot(call[t], 0)
            /\ \A j \in Idx : j >= 1 => mem[call[t].out][j] = call[t].pre[call[t].out][j]

\* A call has stored a q_dot[0] that differs from q[0] and from the old l[0].
C5_witness ==
    /\ Finished(1, "customCableLengths") /\ call[1].out = "l"
    /\ mem["l"][0] = PreQdot(call[1], 0)
    /\ PreQdot(call[1], 0) # PreQ(call[1], 0)
    /\ mem["l"][0] # call[1].pre["l"][0]
    /\ mem["l"][1] = call[1].pre["l"][1]

\* The value the spec gives for entry i of the output of f, from q[i] = a
\* and q_dot[i] = b.
SpecValue(f, a, b) ==
    CASE f = "customM" -> a
      [] f = "customC" -> 2 * a + b
      [] f = "customG" -> 3 * a - b
      [] f = "customL" -> a * b

\* C10: when the output of customM, customC, customG or customL is the very
\* buffer passed as q or as q_dot, every output[i], i in 0..2, is the spec
\* formula on the q[i] and q_dot[i] of entry.
C10_InPlace ==
    \A t \in Threads :
        /\ Done(t) /\ ~call[t].raced
        /\ call[t].fn \in {"customM", "customC", "customG", "customL"}
        /\ call[t].out \in {call[t].q, call[t].q_dot}
        => \A i \in 0 .. 2 :
              mem[call[t].out][i] =
                  SpecValue(call[t].fn, PreQ(call[t], i), PreQdot(call[t], i))

\* customG has overwritten the q_dot it was given with new values.
C10_witness ==
    /\ Finished(1, "customG") /\ call[1].out = call[1].q_dot
    /\ \A i \in 0 .. 2 : mem[call[1].out][i] # PreQdot(call[1], i)
    /\ \A i \in 0 .. 2 : mem[call[1].out][i] = 3 * PreQ(call[1], i) - PreQdot(call[1], i)

\* A step changes the cell <<b, i>> only as the store of a running call to
\* entry i <= 2 of its own output buffer, i being the statement it is at
\* (entry 0 only, for customCableLengths).
FrameStep ==
    \A b \in Bufs, i \in Idx :
        mem'[b][i] # mem[b][i] =>
            \E t \in Threads :
                /\ Running(t) /\ call'[t].pc = call[t].pc + 1
                /\ b = call[t].out /\ i = call[t].pc /\ i <= 2
                /\ (call[t].fn = "customCableLengths" => i = 0)

\* Every cell a call has loaded or stored has an index in 0..2; the stored
\* ones are in its output buffer, the loaded ones in its q and q_dot.
AccessOk ==
    \A t \in Threads : \A x \in call[t].acc :
        /\ x[2] \in 0 .. 2 /\ x[2] < BufLen
        /\ x[1] \in {call[t].out, call[t].q, call[t].q_dot}

\* C6: a call changes nothing but entries 0..2 of its own output buffer
\* (entry 0 for customCableLengths): the input vectors, the output entries
\* from 3 on and the other output buffers keep their values, and no index
\* outside 0..2 is read or written.
C6_Frame == [][FrameStep /\ AccessOk']_vars

\* customC has run to its end: it has touched nine cells, entry 3 of its
\* output and the whole of the other output buffers are as on start.
C6_witness ==
    /\ Finished(1, "customC") /\ call[1].out = "C"
    /\ Cardinality(call[1].acc) = 9
    /\ mem["C"][0] # Filler("C", 0) /\ mem["C"][3] = Filler("C", 3)
    /\ \A b \in OutBufs \ {"C"} : \A i \in Idx : mem[b][i] = Filler(b, i)
    /\ \A b \in InBufs : mem[b] = call[1].pre[b]

\* The memory the call c would see were it run alone from its entry: the
\* buffers it was handed as on entry.
AloneMem(c) == [b \in Bufs |-> IF b \in DOMAIN c.pre THEN c.pre[b] ELSE mem[b]]

\* C7: whatever ran before a call and however another call with disjoint
\* buffers is interleaved with it, its output buffer ends as when the call
\* is run alone on the same inputs.
C7_Reentrant ==
    \A t \in Threads :
        Done(t) /\ ~call[t].raced /\ Distinct(call[t]) =>
            \A i \in Idx :
                mem[call[t].out][i] = RunAlone(AloneMem(call[t]), call[t])[call[t].out][i]

\* Two calls of customC that overlapped, sharing q and q_dot, have both run
\* to their end without a race and left the same last entry.
C7_witness ==
    /\ Finished(1, "customC") /\ Finished(2, "customC")
    /\ call[1].q = call[2].q /\ call[1].q_dot = call[2].q_dot
    /\ call[1].out # call[2].out
    /\ mem[call[1].out][2] = mem[call[2].out][2]

\* C8: a call of mexFunction leaves every buffer and the arrays plhs and
\* prhs as they are, and does not disturb the calls in progress.
C8_mexFunction == [][nmex' # nmex => UNCHANGED <<mem, plhs, prhs, call>>]_vars

\* mexFunction has been called and a dynamics function has run to its
\* end with the result of the spec.
C8_witness ==
    /\ nmex >= 1 /\ Finished(1, "customL") /\ Example(call[1])
    /\ mem[call[1].out][0] = 4 /\ mem[call[1].out][1] = 10 /\ mem[call[1].out][2] = 18

\* The two calls c and d were entered with the same values in the entries
\* 0..2 of the argument q (resp. q_dot).
SameQ(c, d) == \A i \in 0 .. 2 : PreQ(c, i) = PreQ(d, i)
SameQdot(c, d) == \A i \in 0 .. 2 : PreQdot(c, i) = PreQdot(d, i)

\* C9: two calls of the same function entered with equal q and q_dot
\* (equal q suffices for customM, equal q_dot for customCableLengths)
\* leave the same values in the entries they store, and the other entries
\* of their outputs as on entry, whatever q_ddot and W_e are.
C9_Independent ==
    \A t, u \in Threads :
        /\ t # u /\ Done(t) /\ Done(u) /\ ~call[t].raced /\ ~call[u].raced
        /\ call[t].fn = call[u].fn
        /\ (call[t].fn # "customCableLengths" => SameQ(call[t], call[u]))
        /\ (call[t].fn # "customM" => SameQdot(call[t], call[u]))
        => /\ \A i \in 0 .. (NStmts(call[t].fn) - 1) :
                 mem[call[t].out][i] = mem[call[u].out][i]
           /\ \A i \in Idx : i >= NStmts(call[t].fn) =>
                 mem[call[t].out][i] = call[t].pre[call[t].out][i]

\* Two calls of customM have run to their end, one handed as q_dot and
\* q_ddot buffers whose contents differ from those of the other.
C9_witness ==
    /\ Finished(1, "customM") /\ Finished(2, "customM")
    /\ SameQ(call[1], call[2])
    /\ \E i \in 0 .. 2 : PreQdot(call[1], i) # PreQdot(call[2], i)
    /\ \E i \in 0 .. 2 :
          call[1].pre[call[1].q_ddot][i] # call[2].pre[call[2].q_ddot][i]
    /\ \A i \in 0 .. 2 : mem[call[1].out][i] = mem[call[2].out][i]

====
